---- MODULE Spec2Model ----
(***************************************************************************)
(* Model of vrc-get's change planning for adding packages to a project     *)
(* (vrc-get-vpm/src/unity_project/add_package.rs) and of the Unity         *)
(* installation store maintenance                                          *)
(* (vrc-get-vpm/src/environment/unity_management.rs).                      *)
(*                                                                         *)
(* A version is a point of a total order (1..MaxVer).  A range is an exact *)
(* version ("eq") or a lower bound ("ge").  package_resolution and the     *)
(* pending_project_changes builder are not part of the sources at hand;    *)
(* they are modelled from sections 4.2 and 4.3 of the specification.       *)
(***************************************************************************)
EXTENDS Integers, Sequences, FiniteSets, TLC

\* ------------------------------------------------------------------ bounds
MaxVer == 2
MaxReq == 2
MaxMissing == 1
MaxDeclared == 1
MaxUnity == 2

Names == {"A", "B", "C"}
\* the stable visiting order of names (section 4.2, determinism)
NameOrder == <<"A", "B", "C">>
Versions == 1..MaxVer

\* --------------------------------------------------- versions and ranges
NoRange == [kind |-> "none", v |-> 0]
Eq(v) == [kind |-> "eq", v |-> v]
Ge(v) == [kind |-> "ge", v |-> v]
Ranges == {Eq(v) : v \in Versions} \cup {Ge(v) : v \in Versions}

\* VersionRange::matches
Satisfies(ver, r) ==
    CASE r.kind = "eq" -> ver = r.v
      [] r.kind = "ge" -> ver >= r.v
      [] OTHER -> FALSE

\* DependencyRange::as_single_version; 0 stands for None
as_single_version(r) == IF r.kind = "eq" THEN r.v ELSE 0

\* DependencyRange::version
DependencyRange_version(v) == Eq(v)

\* some version lies in both ranges
Compatible(r1, r2) ==
    \E v \in Versions : Satisfies(v, r1) /\ Satisfies(v, r2)

\* ------------------------------------------------------------- packages
NoDeps == [n \in Names |-> NoRange]
Deps1(n, r) == [NoDeps EXCEPT ![n] = r]
Deps2(n1, r1, n2, r2) == [NoDeps EXCEPT ![n1] = r1, ![n2] = r2]

Pkg(name, version, deps, legacy, unity, pre) ==
    [name |-> name, version |-> version, deps |-> deps, legacy |-> legacy,
     unity |-> unity, pre |-> pre]

NoPkg == Pkg("none", 0, NoDeps, {}, 0, FALSE)

\* every package that exists anywhere: the universe the Package Source,
\* the lock file and the requests are drawn from.  A@2 supersedes B,
\* B@2 is a prerelease, C@2 needs the newer engine.
Catalog ==
    { Pkg("A", 1, Deps2("B", Ge(1), "C", Eq(1)), {}, 1, FALSE),
      Pkg("A", 2, Deps1("C", Ge(1)), {"B"}, 1, FALSE),
      Pkg("B", 1, Deps1("C", Eq(2)), {}, 1, FALSE),
      Pkg("B", 2, Deps1("C", Ge(1)), {}, 1, TRUE),
      Pkg("C", 1, Deps1("B", Ge(1)), {}, 1, FALSE),
      Pkg("C", 2, Deps1("A", Ge(1)), {}, 2, FALSE) }

CatalogPkg(n, v) == CHOOSE p \in Catalog : p.name = n /\ p.version = v

\* -------------------------------------------------------------- manifest
\* VpmManifest: dependencies (name -> range, NoRange when undeclared) and
\* locked (name -> version, 0 when not locked).  A locked entry's own
\* dependency list is the one of the package it was installed from.
VARIABLES manifest, source, unity_version, pc, call, result

\* VpmManifest::get_dependency
get_dependency(m, name) == m.dependencies[name]

\* VpmManifest::get_locked; 0 stands for None
get_locked(m, name) == m.locked[name]

\* UnityProject::is_locked
is_locked(m, name) == m.locked[name] # 0

\* the dependency names of a locked entry
LockedDepNames(n, v) == {d \in Names : CatalogPkg(n, v).deps[d] # NoRange}

\* ------------------------------------------------- pending changes builder
NoConflicts == [n \in Names |-> <<>>]

\* pending_project_changes::Builder::new
Builder_new ==
    [dependencies |-> [n \in Names |-> NoRange], locked |-> <<>>,
     removals |-> {}, conflicts |-> NoConflicts]

\* the value a failed call leaves in place of a plan
NoPlan == [dependencies |-> [n \in Names |-> NoRange], locked |-> <<>>,
           removals |-> {}, conflicts |-> NoConflicts, finalized |-> "none"]

add_to_dependencies(changes, name, range) ==
    [changes EXCEPT !.dependencies[name] = range]

install_to_locked(changes, pkg) ==
    [changes EXCEPT !.locked = Append(@, pkg)]

conflict_multiple(changes, name, requesters) ==
    [changes EXCEPT !.conflicts[name] = requesters]

remove(changes, name, reason) ==
    [changes EXCEPT !.removals = @ \cup {[name |-> name, reason |-> reason]}]

\* only the staged top-level dependency edits survive
build_no_resolve(changes) ==
    [dependencies |-> changes.dependencies, locked |-> <<>>, removals |-> {},
     conflicts |-> NoConflicts, finalized |-> "no_resolve"]

\* the full plan
build_resolve(changes) ==
    [dependencies |-> changes.dependencies, locked |-> changes.locked,
     removals |-> changes.removals, conflicts |-> changes.conflicts,
     finalized |-> "resolve"]

\* ------------------------------------ package resolution (section 4.2)
\* Package Source: the best (highest) candidate of that name satisfying the
\* range, the engine version and the prerelease policy; NoPkg when none
Find(src, name, range, unity, allow_prerelease) ==
    LET c == {p \in src : /\ p.name = name
                          /\ Satisfies(p.version, range)
                          /\ p.unity <= unity
                          /\ (allow_prerelease \/ ~p.pre)}
    IN IF c = {} THEN NoPkg
       ELSE CHOOSE p \in c : \A q \in c : q.version <= p.version

AppendDistinct(seq, x) ==
    IF \E i \in 1..Len(seq) : seq[i] = x THEN seq ELSE Append(seq, x)

\* the distinct requesting package names, in first-seen order
RECURSIVE Requesters(_)
Requesters(reqs) ==
    IF reqs = <<>> THEN <<>>
    ELSE AppendDistinct(Requesters(SubSeq(reqs, 1, Len(reqs) - 1)),
                        reqs[Len(reqs)].by)

\* the resolution context: work queue, the version chosen per name in this
\* pass, the order names were first chosen in, every consumer's requirement
\* per name, the conflict map, the Package Source queries made, the error
ResolutionContext(adding) ==
    [queue |-> adding,
     chosen |-> [n \in Names |->
                   IF \E i \in 1..Len(adding) : adding[i].name = n
                   THEN adding[CHOOSE i \in 1..Len(adding) : adding[i].name = n]
                   ELSE NoPkg],
     order |-> [i \in 1..Len(adding) |-> adding[i].name],
     reqs |-> [n \in Names |-> <<>>],
     conflicts |-> NoConflicts,
     queries |-> <<>>,
     err |-> ""]

\* steps 2 to 4 for one dependency (n, p.deps[n]) of the consumer p
ResolveDependency(ctx, p, n, locked, src, unity, allow_prerelease) ==
    LET r == p.deps[n]
        ctx1 == [ctx EXCEPT !.reqs[n] = Append(@, [by |-> p.name, range |-> r])]
        cur == IF ctx.chosen[n] # NoPkg THEN ctx.chosen[n].version ELSE locked[n]
        found == Find(src, n, r, unity, allow_prerelease)
        ctx2 == [ctx1 EXCEPT !.queries =
                    Append(@, [name |-> n, range |-> r, by |-> p.name,
                               found |-> found])]
    IN IF ctx.conflicts[n] # <<>>
         THEN [ctx1 EXCEPT !.conflicts[n] = AppendDistinct(@, p.name)]
       ELSE IF cur # 0 /\ Satisfies(cur, r)
         THEN ctx1
       ELSE IF found = NoPkg
         THEN [ctx2 EXCEPT !.err = n]
       ELSE IF \E i \in 1..Len(ctx.reqs[n]) : ~Compatible(ctx.reqs[n][i].range, r)
         THEN [ctx2 EXCEPT !.conflicts[n] = Requesters(ctx1.reqs[n]),
                           !.chosen[n] = NoPkg]
       ELSE [ctx2 EXCEPT !.chosen[n] = found,
                         !.queue = Append(@, found),
                         !.order = AppendDistinct(@, n)]

\* the dependencies of p, visited in name order
RECURSIVE ResolveDependencies(_, _, _, _, _, _, _)
ResolveDependencies(ctx, p, i, locked, src, unity, allow_prerelease) ==
    IF i > Len(NameOrder) \/ ctx.err # "" THEN ctx
    ELSE ResolveDependencies(
            IF p.deps[NameOrder[i]] = NoRange THEN ctx
            ELSE ResolveDependency(ctx, p, NameOrder[i], locked, src, unity,
                                   allow_prerelease),
            p, i + 1, locked, src, unity, allow_prerelease)

\* the work-queue walk; a queued package that has since been replaced or
\* excluded is dropped
RECURSIVE Walk(_, _, _, _, _)
Walk(ctx, locked, src, unity, allow_prerelease) ==
    IF ctx.err # "" \/ ctx.queue = <<>> THEN ctx
    ELSE LET p == Head(ctx.queue)
             rest == [ctx EXCEPT !.queue = Tail(@)]
         IN Walk(IF ctx.chosen[p.name] = p
                 THEN ResolveDependencies(rest, p, 1, locked, src, unity,
                                          allow_prerelease)
                 ELSE rest,
                 locked, src, unity, allow_prerelease)

RECURSIVE ChosenInOrder(_, _)
ChosenInOrder(chosen, order) ==
    IF order = <<>> THEN <<>>
    ELSE (IF chosen[Head(order)] = NoPkg THEN <<>> ELSE <<chosen[Head(order)]>>)
         \o ChosenInOrder(chosen, Tail(order))

\* package_resolution::collect_adding_packages: err (the dependency that
\* was not found, "" when none), new_packages, conflicts,
\* found_legacy_packages, and the queries made
collect_adding_packages(locked, unity, src, adding, allow_prerelease) ==
    LET ctx == Walk(ResolutionContext(adding), locked, src, unity,
                    allow_prerelease)
        new == ChosenInOrder(ctx.chosen, ctx.order)
    IN [err |-> ctx.err,
        new_packages |-> new,
        conflicts |-> ctx.conflicts,
        found_legacy_packages |->
            UNION {new[i].legacy : i \in 1..Len(new)},
        queries |-> ctx.queries]

\* ------------------------------------------------- add_package_request
NoErr == [type |-> "none", name |-> ""]

\* an equal declared version is rewritten too
needs_add_to_dependencies_le(m, request) ==
    LET range == m.dependencies[request.name]
        full == IF range = NoRange THEN 0 ELSE as_single_version(range)
    IN IF full = 0 THEN TRUE ELSE full <= request.version

\* InstallToDependencies: whether the top-level declaration is staged
needs_add_to_dependencies(m, request) ==
    LET range == get_dependency(m, request.name)
        full == IF range = NoRange THEN 0 ELSE as_single_version(range)
    IN IF full = 0 THEN TRUE ELSE full < request.version

\* the guard left out
upgrading_non_locked_unguarded(m, request) == FALSE

\* UpgradeLocked: the package is not locked, so it cannot be upgraded
upgrading_non_locked(m, request) == get_locked(m, request.name) = 0

\* an equal version passes too
check_and_add_not_newer(request, adding_packages, m) ==
    IF (IF m.locked[request.name] = 0 THEN TRUE
        ELSE m.locked[request.name] <= request.version)
    THEN Append(adding_packages, request)
    ELSE adding_packages

\* the locked version ignored
check_and_add_always(request, adding_packages, m) ==
    Append(adding_packages, request)

check_and_add_adding_package(request, adding_packages, m) ==
    IF (IF get_locked(m, request.name) = 0 THEN TRUE
        ELSE get_locked(m, request.name) < request.version)
    THEN Append(adding_packages, request)
    ELSE adding_packages

\* the loop over the requested packages; it stops at the first error
RECURSIVE request_loop(_, _, _, _)
request_loop(m, packages, operation, st) ==
    IF packages = <<>> THEN st
    ELSE LET request == Head(packages) IN
      IF operation = "InstallToDependencies"
      THEN request_loop(m, Tail(packages), operation,
             [st EXCEPT
                !.changes = IF needs_add_to_dependencies(m, request)
                            THEN add_to_dependencies(@, request.name,
                                    DependencyRange_version(request.version))
                            ELSE @,
                !.adding = check_and_add_adding_package(request, @, m)])
      ELSE IF upgrading_non_locked(m, request)
      THEN [st EXCEPT !.err = [type |-> "UpgradingNonLockedPackage",
                               name |-> request.name]]
      ELSE request_loop(m, Tail(packages), operation,
             [st EXCEPT !.adding = check_and_add_adding_package(request, @, m)])

\* the early return left out
nothing_to_install_never(adding_packages) == FALSE

\* early return: nothing new to install
nothing_to_install(adding_packages) == adding_packages = <<>>

\* the error dropped
resolution_failed_ignored(res) == FALSE

\* the ? on the result of collect_adding_packages
resolution_failed(res) == res.err # ""

\* the last new package left out
RECURSIVE install_all_but_last(_, _)
install_all_but_last(changes, new_packages) ==
    IF Len(new_packages) <= 1 THEN changes
    ELSE install_all_but_last(
            [changes EXCEPT !.locked = Append(@, Head(new_packages))],
            Tail(new_packages))

RECURSIVE install_new_packages(_, _)
install_new_packages(changes, new_packages) ==
    IF new_packages = <<>> THEN changes
    ELSE install_new_packages(install_to_locked(changes, Head(new_packages)),
                              Tail(new_packages))

\* the conflicts left out of the plan
record_no_conflicts(changes, conflicts, i) == changes

RECURSIVE record_conflicts(_, _, _)
record_conflicts(changes, conflicts, i) ==
    IF i > Len(NameOrder) THEN changes
    ELSE record_conflicts(
            IF conflicts[NameOrder[i]] = <<>> THEN changes
            ELSE conflict_multiple(changes, NameOrder[i], conflicts[NameOrder[i]]),
            conflicts, i + 1)

\* the is_locked filter left out
legacy_to_remove_unfiltered(m, found_legacy_packages) == found_legacy_packages

legacy_to_remove(m, found_legacy_packages) ==
    {name \in found_legacy_packages : is_locked(m, name)}

RECURSIVE remove_all(_, _)
remove_all(changes, names) ==
    IF names = {} THEN changes
    ELSE LET name == CHOOSE x \in names : TRUE
         IN remove_all(remove(changes, name, "Legacy"), names \ {name})

remove_legacy(changes, m, found_legacy_packages) ==
    remove_all(changes, legacy_to_remove(m, found_legacy_packages))

\* what the call returns (kind, err, plan), with what it did on the way:
\* the adding set, whether resolution was entered, the source queries made
add_package_request(m, unity, src, packages, operation, allow_prerelease) ==
    LET st == request_loop(m, packages, operation,
                 [changes |-> Builder_new, adding |-> <<>>, err |-> NoErr])
        res == collect_adding_packages(m.locked, unity, src, st.adding,
                                       allow_prerelease)
        changes == remove_legacy(
                      record_conflicts(
                         install_new_packages(st.changes, res.new_packages),
                         res.conflicts, 1),
                      m, res.found_legacy_packages)
    IN IF st.err # NoErr
         THEN [kind |-> "err", err |-> st.err, plan |-> NoPlan,
               adding |-> st.adding, resolved |-> FALSE, queries |-> <<>>]
       ELSE IF nothing_to_install(st.adding)
         THEN [kind |-> "ok", err |-> NoErr, plan |-> build_no_resolve(st.changes),
               adding |-> st.adding, resolved |-> FALSE, queries |-> <<>>]
       ELSE IF resolution_failed(res)
         THEN [kind |-> "err",
               err |-> [type |-> "DependencyNotFound", name |-> res.err],
               plan |-> NoPlan,
               adding |-> st.adding, resolved |-> TRUE, queries |-> res.queries]
       ELSE [kind |-> "ok", err |-> NoErr, plan |-> build_resolve(changes),
             adding |-> st.adding, resolved |-> TRUE, queries |-> res.queries]

\* ------------------------------------------ unity installation store
\* db: the installation records of the store, by path; fs: what the file at
\* a path is (absent, a Unity editor, or a file whose probe run fails);
\* ulast: the store operation that returned last
VARIABLES db, fs, ulast

MaxPaths == 3
Paths == 1..MaxPaths
FileKinds == {"absent", "unity", "badexit", "badversion"}

NoRecord == [present |-> FALSE, loaded_from_hub |-> FALSE]
\* DbUnityVersion::new(path, version, loaded_from_hub)
DbUnityVersion_new(loaded_from_hub) ==
    [present |-> TRUE, loaded_from_hub |-> loaded_from_hub]

\* EnvironmentIo::is_file
is_file(f, path) == f[path] # "absent"

\* Environment::add_unity_installation: the store after the call and the
\* call's result; timed_out: the probe run takes more than ten seconds
add_unity_installation(d, f, path, timed_out) ==
    IF d[path].present THEN [db |-> d, res |-> "AlreadyExists"]
    ELSE IF f[path] = "absent" THEN [db |-> d, res |-> "NotFound"]
    ELSE IF timed_out THEN [db |-> d, res |-> "TimedOut"]
    ELSE IF f[path] = "badexit" THEN [db |-> d, res |-> "InvalidInput"]
    ELSE IF f[path] = "badversion" THEN [db |-> d, res |-> "InvalidInput"]
    ELSE [db |-> [d EXCEPT ![path] = DbUnityVersion_new(FALSE)], res |-> "Ok"]

\* the first loop of update_unity_from_unity_hub_and_fs: records whose file
\* is gone are deleted, the others get loaded_from_hub := exists_in_hub
sync_records(d, f, paths_from_hub) ==
    [path \in Paths |->
       IF ~d[path].present THEN NoRecord
       ELSE IF ~is_file(f, path) THEN NoRecord
       ELSE IF (path \in paths_from_hub) # d[path].loaded_from_hub
       THEN [d[path] EXCEPT !.loaded_from_hub = path \in paths_from_hub]
       ELSE d[path]]

\* the paths the first loop found installed
installed_paths(d, f) == {path \in Paths : d[path].present /\ is_file(f, path)}

\* the second loop: the hub's paths in the order the set yields them; the
\* first failing add_unity_installation ends the call
RECURSIVE add_from_hub(_, _, _, _, _)
add_from_hub(d, f, order, installed, timeouts) ==
    IF order = <<>> THEN [db |-> d, res |-> "Ok"]
    ELSE IF Head(order) \in installed
    THEN add_from_hub(d, f, Tail(order), installed, timeouts)
    ELSE LET r == add_unity_installation(d, f, Head(order),
                                         Head(order) \in timeouts)
         IN IF r.res # "Ok" THEN r
            ELSE add_from_hub(r.db, f, Tail(order), installed, timeouts)

\* Environment::update_unity_from_unity_hub_and_fs
update_unity_from_unity_hub_and_fs(d, f, order, timeouts) ==
    LET paths_from_hub == {order[i] : i \in 1..Len(order)}
    IN add_from_hub(sync_records(d, f, paths_from_hub), f, order,
                    installed_paths(d, f), timeouts)

\* the orders a set of paths can be iterated in
Orders(S) ==
    {o \in [1..Cardinality(S) -> S] : \A i, j \in 1..Cardinality(S) :
                                         i # j => o[i] # o[j]}

NoOp == [op |-> "none", hub |-> {}, res |-> "none"]

AddUnityInstallation(path, timed_out) ==
    /\ LET r == add_unity_installation(db, fs, path, timed_out)
       IN /\ db' = r.db
          /\ ulast' = [op |-> "add", hub |-> {}, res |-> r.res]
    /\ UNCHANGED fs

\* Environment::remove_unity_installation
RemoveUnityInstallation(path) ==
    /\ db[path].present
    /\ db' = [db EXCEPT ![path] = NoRecord]
    /\ ulast' = [op |-> "remove", hub |-> {}, res |-> "Ok"]
    /\ UNCHANGED fs

UpdateUnityFromUnityHubAndFs(order, timeouts) ==
    /\ LET r == update_unity_from_unity_hub_and_fs(db, fs, order, timeouts)
       IN /\ db' = r.db
          /\ ulast' = [op |-> "update",
                       hub |-> {order[i] : i \in 1..Len(order)},
                       res |-> r.res]
    /\ UNCHANGED fs

\* the file system changes under the store
FsChange(path, kind) ==
    /\ fs[path] # kind
    /\ fs' = [fs EXCEPT ![path] = kind]
    /\ ulast' = NoOp
    /\ UNCHANGED db

\* ------------------------------------------------------- state machine
NoCall == [packages |-> <<>>, operation |-> "none", allow_prerelease |-> FALSE]
NoResult == [kind |-> "none", err |-> NoErr, plan |-> NoPlan, adding |-> <<>>,
             resolved |-> FALSE, queries |-> <<>>]

Operations == {"InstallToDependencies", "UpgradeLocked"}

\* the requests: up to MaxReq packages of the Package Source, distinct names
RECURSIVE RequestsOfLen(_, _)
RequestsOfLen(src, k) ==
    IF k = 0 THEN {<<>>}
    ELSE {Append(q, p) : q \in RequestsOfLen(src, k - 1),
                         p \in src} 

DistinctNames(q) == \A i, j \in 1..Len(q) : i # j => q[i].name # q[j].name

Requests(src) ==
    {q \in UNION {RequestsOfLen(src, k) : k \in 0..MaxReq} : DistinctNames(q)}

Manifests ==
    {[dependencies |-> d, locked |-> l] :
        d \in {x \in [Names -> Ranges \cup {NoRange}] :
                  Cardinality({n \in Names : x[n] # NoRange}) <= MaxDeclared},
        l \in {x \in [Names -> 0..MaxVer] :
                  \A n \in Names : x[n] # 0 =>
                     \E p \in Catalog : p.name = n /\ p.version = x[n]}}

Sources == {Catalog \ gone : gone \in {g \in SUBSET Catalog : Cardinality(g) <= MaxMissing}}

project_vars == <<manifest, source, unity_version, pc, call, result>>
store_vars == <<db, fs, ulast>>
vars == <<manifest, source, unity_version, pc, call, result, db, fs, ulast>>

\* no call made yet
Idle ==
    /\ pc = "idle"
    /\ call = NoCall
    /\ result = NoResult

\* a project with any locked map and no declared dependency, a Package
\* Source that lacks up to MaxMissing packages, any engine version
ProjectInit ==
    /\ manifest \in {m \in Manifests : \A n \in Names : m.dependencies[n] = NoRange}
    /\ source \in Sources
    /\ unity_version \in 1..MaxUnity
    /\ Idle

\* a project with any locked map and up to MaxDeclared declared
\* dependencies, the whole Package Source, the newest engine
DeclaredInit ==
    /\ manifest \in Manifests
    /\ source = Catalog
    /\ unity_version = MaxUnity
    /\ Idle

\* an empty store
StoreInit ==
    /\ db = [path \in Paths |-> NoRecord]
    /\ fs \in [Paths -> FileKinds]
    /\ ulast = NoOp

Init == ProjectInit /\ StoreInit /\ fs = [path \in Paths |-> "absent"]

InitDecl == DeclaredInit /\ StoreInit /\ fs = [path \in Paths |-> "absent"]

AddPackageRequest(packages, operation, allow_prerelease) ==
    /\ pc = "idle"
    /\ pc' = "done"
    /\ call' = [packages |-> packages, operation |-> operation,
                allow_prerelease |-> allow_prerelease]
    /\ result' = add_package_request(manifest, unity_version, source, packages,
                                     operation, allow_prerelease)
    /\ UNCHANGED <<manifest, source, unity_version>>
    /\ UNCHANGED store_vars

\* the caller drops the plan or the error; the project is as it was
Discard ==
    /\ pc = "done"
    /\ pc' = "idle"
    /\ call' = NoCall
    /\ result' = NoResult
    /\ UNCHANGED <<manifest, source, unity_version>>
    /\ UNCHANGED store_vars

Next ==
    \/ /\ pc = "idle"
       /\ \E packages \in Requests(source), operation \in Operations,
             allow_prerelease \in BOOLEAN :
             AddPackageRequest(packages, operation, allow_prerelease)
    \/ Discard

\* planning the addition of packages to a project: resolution
Spec == Init /\ [][Next]_vars

\* planning the addition of packages to a project: declared dependencies
SpecDecl == InitDecl /\ [][Next]_vars

InitUnity ==
    /\ StoreInit
    /\ manifest = [dependencies |-> [n \in Names |-> NoRange],
                   locked |-> [n \in Names |-> 0]]
    /\ source = Catalog
    /\ unity_version = 1
    /\ Idle

NextUnity ==
    \/ \E path \in Paths, timed_out \in BOOLEAN :
          AddUnityInstallation(path, timed_out) /\ UNCHANGED project_vars
    \/ \E path \in Paths :
          RemoveUnityInstallation(path) /\ UNCHANGED project_vars
    \/ \E hub \in SUBSET Paths : \E order \in Orders(hub) :
       \E timeouts \in SUBSET hub :
          UpdateUnityFromUnityHubAndFs(order, timeouts) /\ UNCHANGED project_vars
    \/ \E path \in Paths, kind \in FileKinds :
          FsChange(path, kind) /\ UNCHANGED project_vars

\* maintaining the store of Unity installations
SpecUnity == InitUnity /\ [][NextUnity]_vars

\* ------------------------------------------------------------ properties
Done == pc = "done"
Succeeded == pc = "done" /\ result.kind = "ok"
Requested == {call.packages[i] : i \in 1..Len(call.packages)}
Additions == {result.plan.locked[i] : i \in 1..Len(result.plan.locked)}
AddingSet == {result.adding[i] : i \in 1..Len(result.adding)}
QueriedFound == {result.queries[i].found : i \in 1..Len(result.queries)}
NoDependencyAdditions == \A n \in Names : result.plan.dependencies[n] = NoRange
NoLockedChange ==
    /\ result.plan.locked = <<>>
    /\ result.plan.removals = {}
    /\ result.plan.conflicts = NoConflicts
LockedAtLeast(p) ==
    manifest.locked[p.name] # 0 /\ manifest.locked[p.name] >= p.version
DeclaredSingleAtLeast(p) ==
    /\ manifest.dependencies[p.name].kind = "eq"
    /\ manifest.dependencies[p.name].v >= p.version

\* C1 (upgrade guard): a call in UpgradeLocked mode with some requested name
\* that is not locked fails with UpgradingNonLockedPackage naming the first
\* such package, returns no plan, and neither enters resolution nor queries
\* the Package Source, whatever the other requested packages are.
C1_UpgradeGuard ==
    (/\ Done
     /\ call.operation = "UpgradeLocked"
     /\ \E i \in 1..Len(call.packages) : manifest.locked[call.packages[i].name] = 0)
    => LET first == CHOOSE i \in 1..Len(call.packages) :
                      /\ manifest.locked[call.packages[i].name] = 0
                      /\ \A j \in 1..(i - 1) :
                            manifest.locked[call.packages[j].name] # 0
       IN /\ result.kind = "err"
          /\ result.err = [type |-> "UpgradingNonLockedPackage",
                           name |-> call.packages[first].name]
          /\ result.plan = NoPlan
          /\ ~result.resolved
          /\ result.queries = <<>>

\* an upgrade of a locked package that would be installed, followed by a
\* package that is not locked: the call is refused
C1_Witness ==
    /\ Done
    /\ call.operation = "UpgradeLocked"
    /\ Len(call.packages) = 2
    /\ manifest.locked[call.packages[1].name] # 0
    /\ manifest.locked[call.packages[1].name] < call.packages[1].version
    /\ manifest.locked[call.packages[2].name] = 0
    /\ result.err.type = "UpgradingNonLockedPackage"

\* a single InstallToDependencies request for a package locked at a version
\* >= the requested one
C2_Case ==
    /\ Done
    /\ call.operation = "InstallToDependencies"
    /\ Len(call.packages) = 1
    /\ LockedAtLeast(call.packages[1])

\* C2 as stated (idempotence): such a request yields a plan with empty
\* locked-additions and empty dependency-additions for every manifest state.
C2_IdempotenceAsStated ==
    C2_Case => /\ result.kind = "ok"
               /\ result.plan.locked = <<>>
               /\ NoDependencyAdditions

\* C2 (idempotence, amended): such a request yields a plan that changes
\* nothing in locked; its dependency-additions are empty exactly when the
\* manifest already declares the name with a single version >= the requested
\* one, and otherwise hold the one declaration name -> requested version.
C2_Idempotence ==
    C2_Case =>
      LET p == call.packages[1] IN
      /\ result.kind = "ok"
      /\ NoLockedChange
      /\ ~result.resolved
      /\ (NoDependencyAdditions <=> DeclaredSingleAtLeast(p))
      /\ \A n \in Names :
            result.plan.dependencies[n] # NoRange
            => n = p.name /\ result.plan.dependencies[n] = Eq(p.version)

\* the fully idempotent case: locked and declared at a version >= requested
C2_Witness ==
    /\ C2_Case
    /\ DeclaredSingleAtLeast(call.packages[1])
    /\ result.kind = "ok"
    /\ NoDependencyAdditions
    /\ result.plan.locked = <<>>

\* C3 (DependencyNotFound is fatal and atomic): if a dependency that has to
\* be resolved in the call has no candidate in the Package Source, the call
\* returns DependencyNotFound naming that dependency and no plan at all:
\* nothing staged or chosen earlier in the call reaches the caller, and no
\* DependencyNotFound is returned otherwise; so in a returned plan every
\* dependency of an added package has a candidate in the Package Source, or
\* is satisfied by a locked or an added version, or is reported as a conflict.
C3_DependencyNotFoundFatal ==
    Done =>
      /\ \A i \in 1..Len(result.queries) :
            result.queries[i].found = NoPkg
            => /\ result.kind = "err"
               /\ result.err = [type |-> "DependencyNotFound",
                                name |-> result.queries[i].name]
               /\ result.plan = NoPlan
      /\ result.err.type = "DependencyNotFound"
         => /\ result.kind = "err"
            /\ result.plan = NoPlan
            /\ \E i \in 1..Len(result.queries) :
                  /\ result.queries[i].found = NoPkg
                  /\ result.queries[i].name = result.err.name
                  /\ Find(source, result.err.name, result.queries[i].range,
                          unity_version, call.allow_prerelease) = NoPkg
      /\ result.kind = "ok" =>
            \A p \in Additions : \A n \in Names :
               p.deps[n] # NoRange =>
                  \/ Find(source, n, p.deps[n], unity_version,
                          call.allow_prerelease) # NoPkg
                  \/ /\ manifest.locked[n] # 0
                     /\ Satisfies(manifest.locked[n], p.deps[n])
                  \/ \E x \in Additions :
                        x.name = n /\ Satisfies(x.version, p.deps[n])
                  \/ result.plan.conflicts[n] # <<>>

\* a declaration was staged and a package chosen before the failing query
C3_Witness ==
    /\ Done
    /\ result.err.type = "DependencyNotFound"
    /\ call.operation = "InstallToDependencies"
    /\ ~DeclaredSingleAtLeast(call.packages[1])
    /\ Len(result.queries) >= 2
    /\ result.queries[1].found # NoPkg
    /\ result.plan = NoPlan

\* C4 (conflict completeness): in a successful call, if two distinct packages
\* of the locked-addition list require the same dependency name with ranges
\* that no single version satisfies, the conflict map holds that name with
\* both requesting names in its list, and no package of that name is in the
\* locked-addition list.
C4_ConflictCompleteness ==
    Succeeded =>
      \A p, q \in Additions : \A n \in Names :
         (/\ p # q
          /\ p.deps[n] # NoRange
          /\ q.deps[n] # NoRange
          /\ ~Compatible(p.deps[n], q.deps[n]))
         => /\ \E i \in 1..Len(result.plan.conflicts[n]) :
                  result.plan.conflicts[n][i] = p.name
            /\ \E i \in 1..Len(result.plan.conflicts[n]) :
                  result.plan.conflicts[n][i] = q.name
            /\ \A x \in Additions : x.name # n

\* two requested packages need C at versions that exclude each other
C4_Witness ==
    /\ Succeeded
    /\ \E p, q \in Additions :
          /\ p.name = "A" /\ q.name = "B"
          /\ ~Compatible(p.deps["C"], q.deps["C"])
    /\ result.plan.conflicts["C"] = <<"A", "B">>
    /\ \A x \in Additions : x.name # "C"

\* C5 (legacy conditionality): in every returned plan, a name is in the
\* removal set with reason Legacy if and only if it is locked in the manifest
\* and some package of the locked-addition list declares it as legacy;
\* the call stages no other removal.
C5_LegacyConditionality ==
    Succeeded =>
      /\ \A n \in Names :
            ([name |-> n, reason |-> "Legacy"] \in result.plan.removals)
            <=> (/\ manifest.locked[n] # 0
                 /\ \E p \in Additions : n \in p.legacy)
      /\ \A r \in result.plan.removals : r.reason = "Legacy"

\* a locked package is superseded by a newly added one
C5_Witness ==
    /\ Succeeded
    /\ [name |-> "B", reason |-> "Legacy"] \in result.plan.removals
    /\ manifest.locked["B"] # 0
    /\ \E p \in Additions : "B" \in p.legacy

\* C6 as stated (monotonic selection): every package of a returned plan's
\* locked-addition list whose name is already locked is added at a version
\* strictly greater than the locked one.
C6_MonotonicAsStated ==
    Succeeded =>
      \A p \in Additions :
         manifest.locked[p.name] # 0 => p.version > manifest.locked[p.name]

\* C6 (monotonic selection, amended): every requested package that enters
\* the adding set, and every package of a returned plan's locked-addition
\* list that the resolver did not obtain from a Package Source query, has a
\* version strictly greater than the version locked for its name; a
\* dependency obtained from the Package Source can be added at a version
\* that is not above the locked one.
C6_MonotonicSelection ==
    Done =>
      /\ \A p \in AddingSet :
            manifest.locked[p.name] # 0 => p.version > manifest.locked[p.name]
      /\ result.kind = "ok" =>
            \A p \in Additions \ QueriedFound :
               /\ p \in Requested
               /\ manifest.locked[p.name] # 0
                  => p.version > manifest.locked[p.name]

\* a requested upgrade of a locked package is in the plan
C6_Witness ==
    /\ Succeeded
    /\ \E p \in Additions \ QueriedFound :
          /\ p \in Requested
          /\ manifest.locked[p.name] # 0
          /\ p.version > manifest.locked[p.name]
    /\ Cardinality(Additions) >= 2

\* every dependency name of a locked entry is itself locked
Closed(locked) ==
    \A n \in Names : locked[n] # 0 =>
       \A d \in LockedDepNames(n, locked[n]) : locked[d] # 0

\* the locked map after applying a plan: its additions, then its removals
ApplyPlan(locked, plan) ==
    [n \in Names |->
       IF \E r \in plan.removals : r.name = n THEN 0
       ELSE IF \E i \in 1..Len(plan.locked) : plan.locked[i].name = n
       THEN plan.locked[CHOOSE i \in 1..Len(plan.locked) :
                           plan.locked[i].name = n].version
       ELSE locked[n]]

\* C7 as stated (closed locked graph): from a closed locked map, applying any
\* returned plan gives a closed locked map again, conflicts and Legacy
\* removals included.
C7_ClosedAsStated ==
    (Succeeded /\ Closed(manifest.locked))
    => Closed(ApplyPlan(manifest.locked, result.plan))

\* C7 (closed locked graph, amended): from a closed locked map, applying any
\* returned plan gives a locked map in which every dependency name of an
\* entry is locked, or is a key of the plan's conflict map, or is removed by
\* the plan as Legacy; so the map is closed whenever the plan has neither
\* conflicts nor removals.
C7_ClosedLockedGraph ==
    (Succeeded /\ Closed(manifest.locked))
    => LET after == ApplyPlan(manifest.locked, result.plan) IN
       \A n \in Names : after[n] # 0 =>
          \A d \in LockedDepNames(n, after[n]) :
             \/ after[d] # 0
             \/ result.plan.conflicts[d] # <<>>
             \/ [name |-> d, reason |-> "Legacy"] \in result.plan.removals

\* a plan without conflicts or removals that adds a requested package and a
\* dependency resolved for it, and leaves the locked map closed
C7_Witness ==
    /\ Succeeded
    /\ Closed(manifest.locked)
    /\ result.plan.conflicts = NoConflicts
    /\ result.plan.removals = {}
    /\ Cardinality(Additions) >= 2
    /\ Additions \cap QueriedFound # {}
    /\ Closed(ApplyPlan(manifest.locked, result.plan))

\* C8 (InstallToDependencies declaration rule): a returned plan stages, for
\* each requested package, the declaration name -> exactly the requested
\* version if and only if the manifest does not already declare that name
\* with a single version >= the requested one, and stages no declaration for
\* any other name; in UpgradeLocked mode no declaration is ever staged.
C8_DeclarationRule ==
    Succeeded =>
      /\ call.operation = "InstallToDependencies" =>
            /\ \A p \in Requested :
                  IF DeclaredSingleAtLeast(p)
                  THEN result.plan.dependencies[p.name] = NoRange
                  ELSE result.plan.dependencies[p.name] = Eq(p.version)
            /\ \A n \in Names :
                  (\A p \in Requested : p.name # n)
                  => result.plan.dependencies[n] = NoRange
      /\ call.operation = "UpgradeLocked" => NoDependencyAdditions

\* one request whose name is declared with a range that is not a single
\* version (staged), one whose name is not declared (staged)
C8_Witness ==
    /\ Succeeded
    /\ call.operation = "InstallToDependencies"
    /\ Len(call.packages) = 2
    /\ manifest.dependencies[call.packages[1].name].kind = "ge"
    /\ result.plan.dependencies[call.packages[1].name] = Eq(call.packages[1].version)
    /\ result.plan.dependencies[call.packages[2].name] = Eq(call.packages[2].version)

\* the short-circuit rule of C9
C9_Rule ==
    /\ \A p \in Requested : (p \in AddingSet) <=> ~LockedAtLeast(p)
    /\ result.resolved <=> result.adding # <<>>
    /\ ~result.resolved => result.queries = <<>>
    /\ result.adding = <<>> =>
          /\ result.kind = "ok"
          /\ result.plan.finalized = "no_resolve"
          /\ NoLockedChange

\* C9 as stated (short-circuit on an empty adding set): in every call, a
\* requested package enters the adding set iff no locked version of its name
\* is >= the requested one, resolution happens iff that set is non-empty, and
\* with an empty set the call succeeds through build_no_resolve.
C9_ShortCircuitAsStated == Done => C9_Rule

\* C9 (amended): the same, in every call that the upgrade guard does not
\* refuse with UpgradingNonLockedPackage.
C9_ShortCircuit ==
    (Done /\ result.err.type # "UpgradingNonLockedPackage") => C9_Rule

\* UpgradeLocked of a version not above the locked one: the empty plan
C9_Witness ==
    /\ Done
    /\ call.operation = "UpgradeLocked"
    /\ Len(call.packages) = 1
    /\ LockedAtLeast(call.packages[1])
    /\ result.kind = "ok"
    /\ result.plan.finalized = "no_resolve"
    /\ NoLockedChange
    /\ NoDependencyAdditions

\* C10 (installation store sync): after update_unity_from_unity_hub_and_fs
\* returns Ok, every record of the store has loaded_from_hub = true if and
\* only if its path is one of paths_from_hub, the records the call inserted
\* included.
C10_LoadedFromHubSynced ==
    (ulast.op = "update" /\ ulast.res = "Ok")
    => \A path \in Paths :
          db[path].present => (db[path].loaded_from_hub <=> path \in ulast.hub)

====
